---- MODULE Spec2Model ----
(***************************************************************************)
(* Expense tracker: the expense store of ExpenseContext.tsx (React state   *)
(* `expenses`, the load and save effects on the localStorage slot          *)
(* 'expenses', addExpense), its queries getFilteredExpenses and            *)
(* getMonthlyExpensesByCategory, and the views that use them: the list     *)
(* view (search, sort), the analytics totals and the form's submit path.   *)
(*                                                                         *)
(* A Date is [valid, day, ms]: day = whole days since 1970-01-01 UTC,      *)
(* ms = milliseconds into that UTC day; valid = FALSE is an Invalid Date   *)
(* (time value NaN).  The wall clock's zone is a fixed offset `tz` in      *)
(* minutes east of UTC (no daylight-saving switch inside a run).           *)
(***************************************************************************)
EXTENDS Integers, Sequences, FiniteSets, TLC

VARIABLES
    pc,          \* "mountLoad" | "mountSave" | "running" | "crashed"
    expenses,    \* the committed React state: Seq(Expense)
    queue,       \* setExpenses updates enqueued and not yet rendered
    savePending, \* the save effect is scheduled (expenses changed in the last render)
    slot,        \* localStorage item 'expenses'
    logged,      \* console.error was called by the load effect
    err,         \* "none" | "load" | "save": which effect let an exception escape
    slot0,       \* history: the slot as the application found it at startup
    nAdds,       \* history: number of addExpense calls that have returned
    added,       \* history: the ids handed out by addExpense, in call order
    nWrites,     \* history: number of localStorage.setItem calls made
    today,       \* query: the instant `new Date()` returns when the query runs
    tz,          \* query: minutes east of UTC of the local time zone
    qArgs,       \* query: the arguments of the last getFilteredExpenses call
    qResult,     \* query: what that call returned
    strict,      \* "off" | "armed" | "done": React.StrictMode's replay of the mount effects
    qView,       \* list view: the array the query returned, as the view has sorted it
    agg,         \* analytics: [called, months], the last getMonthlyExpensesByCategory result
    analytics,   \* analytics: [shown, categoryTotals, totalExpenses] of ExpenseAnalytics
    form         \* form: [submitted, values, errors] of the last submission handled,
                 \* and pending, the values of the submissions still being validated

vars == <<pc, expenses, queue, savePending, slot, logged, err, slot0, nAdds,
          added, nWrites, today, tz, qArgs, qResult, strict, qView, agg,
          analytics, form>>

storeVars == <<pc, expenses, queue, savePending, slot, logged, err, slot0,
               nAdds, added, nWrites, strict>>

uiVars == <<qView, agg, analytics, form>>

queryVars == <<today, tz, qArgs, qResult>>

(***************************************************************************)
(* Bounds of the model.                                                    *)
(***************************************************************************)
MaxAdds == 2

MaxLen == 2

(***************************************************************************)
(* The closed sets of the data model.                                      *)
(***************************************************************************)
Category == {"Rental", "Groceries", "Entertainment", "Travel", "Others"}

PaymentMode == {"UPI", "Credit Card", "Net Banking", "Cash"}

DateFilter == {"This month", "Last 30 days", "Last 90 Days", "All time"}

(***************************************************************************)
(* Calendar arithmetic of the JavaScript Date (proleptic Gregorian).       *)
(***************************************************************************)
MsPerMinute == 60 * 1000

MsPerDay == 24 * 60 * MsPerMinute

\* Days since 1970-01-01 of the civil date y-m-d (m in 1..12).
DaysFromCivil(y, m, d) ==
    LET yy  == IF m <= 2 THEN y - 1 ELSE y
        era == yy \div 400
        yoe == yy - era * 400
        mp  == IF m > 2 THEN m - 3 ELSE m + 9
        doy == (153 * mp + 2) \div 5 + d - 1
        doe == yoe * 365 + yoe \div 4 - yoe \div 100 + doy
    IN  era * 146097 + doe - 719468

\* The civil date [y, m, d] of a day number.
CivilFromDays(z) ==
    LET zz  == z + 719468
        era == zz \div 146097
        doe == zz - era * 146097
        yoe == (doe - doe \div 1460 + doe \div 36524 - doe \div 146096) \div 365
        doy == doe - (365 * yoe + yoe \div 4 - yoe \div 100)
        mp  == (5 * doy + 2) \div 153
        d   == doy - (153 * mp + 2) \div 5 + 1
        m   == IF mp < 10 THEN mp + 3 ELSE mp - 9
        y   == yoe + era * 400 + (IF m <= 2 THEN 1 ELSE 0)
    IN  [y |-> y, m |-> m, d |-> d]

InvalidDate == [valid |-> FALSE, day |-> 0, ms |-> 0]

\* The Date `ms` milliseconds after the start of UTC day `day` (ms may be
\* negative or exceed a day: the Date normalises).
MkDate(day, ms) ==
    [valid |-> TRUE, day |-> day + ms \div MsPerDay, ms |-> ms % MsPerDay]

\* new Date(y, m-1, d, 0, 0, 0, msOfDay) in the zone `zone`: local civil time to instant.
LocalDate(y, m, d, msOfDay, zone) ==
    MkDate(DaysFromCivil(y, m, d), msOfDay - zone * MsPerMinute)

\* The local wall-clock reading of an instant: [y, m, d, ms] (getFullYear, getMonth()+1, ...).
LocalFields(date, zone) ==
    LET loc == MkDate(date.day, date.ms + zone * MsPerMinute)
        c   == CivilFromDays(loc.day)
    IN  [y |-> c.y, m |-> c.m, d |-> c.d, ms |-> loc.ms]

\* a.getTime() <= b.getTime(); any comparison with NaN is false.
DateLeq(a, b) ==
    /\ a.valid
    /\ b.valid
    /\ \/ a.day < b.day
       \/ a.day = b.day /\ a.ms <= b.ms

\* expense.date >= bound
DateGeq(a, b) == DateLeq(b, a)

(***************************************************************************)
(* date-fns, as getFilteredExpenses uses it (all in local time).           *)
(***************************************************************************)
\* startOfMonth(date): setDate(1); setHours(0, 0, 0, 0)
StartOfMonth(date, zone) ==
    LET f == LocalFields(date, zone)
    IN  IF date.valid THEN LocalDate(f.y, f.m, 1, 0, zone) ELSE InvalidDate

\* A faulty variant of EndOfMonth: the last day of the month at 00:00:00.000.
EndOfMonthMidnight(date, zone) ==
    LET f == LocalFields(date, zone)
    IN  IF date.valid THEN LocalDate(f.y, f.m + 1, 0, 0, zone) ELSE InvalidDate

\* endOfMonth(date): setFullYear(year, month + 1, 0); setHours(23, 59, 59, 999)
EndOfMonth(date, zone) ==
    LET f == LocalFields(date, zone)
    IN  IF date.valid THEN LocalDate(f.y, f.m + 1, 0, MsPerDay - 1, zone) ELSE InvalidDate

\* A faulty variant of StartOfDay: the time of day is kept.
KeepTimeOfDay(date, zone) == date

\* startOfDay(date): setHours(0, 0, 0, 0)
StartOfDay(date, zone) ==
    LET f == LocalFields(date, zone)
    IN  IF date.valid THEN LocalDate(f.y, f.m, f.d, 0, zone) ELSE InvalidDate

\* subDays(date, n): setDate(getDate() - n), the wall-clock time kept
SubDays(date, n, zone) ==
    LET f == LocalFields(date, zone)
    IN  IF date.valid THEN LocalDate(f.y, f.m, f.d - n, f.ms, zone) ELSE InvalidDate

(***************************************************************************)
(* JSON text of the slot.  A JSON string is [js |-> s], a JSON number      *)
(* [jn |-> n]; the date member is [t, y, mo, d, h, mi, s, ms] with         *)
(*   t = "iso"    the string YYYY-MM-DDTHH:mm:ss.sssZ of those fields,     *)
(*   t = "junk"   a string that Date cannot parse,                         *)
(*   t = "null"   the literal null,                                        *)
(*   t = "absent" no date member at all.                                   *)
(* An array element with obj = FALSE is the literal null.                  *)
(***************************************************************************)
JNoDate(t) == [t |-> t, y |-> 0, mo |-> 0, d |-> 0, h |-> 0, mi |-> 0, s |-> 0, ms |-> 0]

\* Date.prototype.toJSON: null for an Invalid Date, else toISOString() (UTC fields).
DateToJSON(date) ==
    IF ~date.valid THEN JNoDate("null")
    ELSE LET c == CivilFromDays(date.day)
         IN  [t  |-> "iso", y |-> c.y, mo |-> c.m, d |-> c.d,
              h  |-> date.ms \div (60 * MsPerMinute),
              mi |-> (date.ms \div MsPerMinute) % 60,
              s  |-> (date.ms \div 1000) % 60,
              ms |-> date.ms % 1000]

\* new Date(v) for the value v of the parsed date member.
NewDate(j) ==
    CASE j.t = "iso"    -> MkDate(DaysFromCivil(j.y, j.mo, j.d),
                                  ((j.h * 60 + j.mi) * 60 + j.s) * 1000 + j.ms)
      [] j.t = "null"   -> MkDate(0, 0)       \* new Date(null) is the epoch
      [] j.t = "junk"   -> InvalidDate        \* new Date("...") that does not parse
      [] j.t = "absent" -> InvalidDate        \* new Date(undefined)

\* JSON.stringify of one Expense.
ExpenseToJSON(e) ==
    [obj |-> TRUE, id |-> [js |-> e.id], amount |-> [jn |-> e.amount],
     category |-> [js |-> e.category], notes |-> [js |-> e.notes],
     date |-> DateToJSON(e.date), paymentMode |-> [js |-> e.paymentMode]]

JNullItem ==
    [obj |-> FALSE, id |-> [js |-> ""], amount |-> [jn |-> 0],
     category |-> [js |-> ""], notes |-> [js |-> ""],
     date |-> JNoDate("absent"), paymentMode |-> [js |-> ""]]

\* JSON.stringify(expenses): the whole collection, as one array.
JSONStringify(coll) ==
    [kind |-> "array", items |-> [i \in 1..Len(coll) |-> ExpenseToJSON(coll[i])]]

NoItem == [kind |-> "absent", items |-> <<>>]     \* getItem returns null

EmptyText == [kind |-> "empty", items |-> <<>>]   \* the item is ""

BadText == [kind |-> "text", items |-> <<>>]      \* not JSON: JSON.parse throws

NotArray == [kind |-> "scalar", items |-> <<>>]   \* JSON, but no array: .map is no function

\* ({...expense, date: new Date(expense.date)}) for one parsed element.
ReviveExpense(j) ==
    [id |-> j.id.js, amount |-> j.amount.jn, category |-> j.category.js,
     notes |-> j.notes.js, date |-> NewDate(j.date), paymentMode |-> j.paymentMode.js]

\* `if (savedExpenses)`: null and "" are falsy.
Truthy(item) == item.kind \notin {"absent", "empty"}

\* JSON.parse(savedExpenses).map(...) throws: a SyntaxError from parse, a TypeError
\* from .map on a non-array or from reading .date of a null element.
ParseThrows(item) ==
    \/ item.kind \in {"text", "scalar"}
    \/ item.kind = "array" /\ \E i \in 1..Len(item.items) : ~item.items[i].obj

ParsedExpenses(item) ==
    [i \in 1..Len(item.items) |-> ReviveExpense(item.items[i])]

(***************************************************************************)
(* Sample data: what the form can submit, what the slot can hold.          *)
(***************************************************************************)
MidJanuary == MkDate(DaysFromCivil(2024, 1, 15), 0)

LeapDayLastMs == MkDate(DaysFromCivil(2024, 2, 29), MsPerDay - 1)

NewYearsEve == MkDate(DaysFromCivil(2023, 12, 31), 66600123)

\* The values onSubmit passes to addExpense (they have passed formSchema).
FormInputs ==
    { [amount |-> 250, category |-> "Groceries", notes |-> "milk",
       date |-> MidJanuary, paymentMode |-> "UPI"],
      [amount |-> 1, category |-> "Travel", notes |-> "",
       date |-> LeapDayLastMs, paymentMode |-> "Cash"] }

\* The identifiers crypto.randomUUID() can return.
UUIDs == {"u1", "u2", "u3"}

SavedRent ==
    [id |-> "s1", amount |-> 900, category |-> "Rental", notes |-> "flat",
     date |-> NewYearsEve, paymentMode |-> "Net Banking"]

SavedFilm ==
    [id |-> "s2", amount |-> 12, category |-> "Entertainment", notes |-> "film",
     date |-> LeapDayLastMs, paymentMode |-> "Credit Card"]

\* Collections an earlier run of the application has saved.
SavedCollections == { <<>>, <<SavedRent>>, <<SavedRent, SavedFilm>> }

\* Slot contents no run of the application wrote: an unknown category, a
\* repeated id, a date member that is unparseable, null or missing.
ForeignItems ==
    { <<[ExpenseToJSON(SavedRent) EXCEPT !.category = [js |-> "Food"]]>>,
      <<[ExpenseToJSON(SavedRent) EXCEPT !.paymentMode = [js |-> "Cheque"]]>>,
      <<ExpenseToJSON(SavedRent), [ExpenseToJSON(SavedFilm) EXCEPT !.id = [js |-> "s1"]]>>,
      <<[ExpenseToJSON(SavedRent) EXCEPT !.date = JNoDate("junk")]>>,
      <<[ExpenseToJSON(SavedRent) EXCEPT !.date = JNoDate("null")]>>,
      <<[ExpenseToJSON(SavedRent) EXCEPT !.date = JNoDate("absent")]>>,
      <<ExpenseToJSON(SavedRent), JNullItem>> }

\* What localStorage can hold under the key 'expenses' when the application starts.
InitialSlots ==
    {NoItem, EmptyText, BadText, NotArray}
    \cup { JSONStringify(c) : c \in SavedCollections }
    \cup { [kind |-> "array", items |-> it] : it \in ForeignItems }

(***************************************************************************)
(* React state updates: setExpenses(value) and setExpenses(prev => ...).   *)
(***************************************************************************)
NoExpense ==
    [id |-> "", amount |-> 0, category |-> "", notes |-> "",
     date |-> InvalidDate, paymentMode |-> ""]

\* setExpenses(parsedExpenses)
SetUpdate(coll) == [kind |-> "set", coll |-> coll, rec |-> NoExpense]

\* A faulty variant of AppendUpdater: the new record is put first.
PrependUpdater(prevExpenses, newExpense) == <<newExpense>> \o prevExpenses

\* (prevExpenses) => [...prevExpenses, newExpense]
AppendUpdater(prevExpenses, newExpense) == Append(prevExpenses, newExpense)

\* A faulty variant of AddUpdate: setExpenses([...expenses, newExpense]) on the rendered value.
StaleAddUpdate(newExpense) ==
    [kind |-> "set", coll |-> Append(expenses, newExpense), rec |-> NoExpense]

\* setExpenses((prevExpenses) => [...prevExpenses, newExpense])
AddUpdate(newExpense) == [kind |-> "append", coll |-> <<>>, rec |-> newExpense]

\* { ...expense, id: crypto.randomUUID() }
NewExpense(expense, uuid) ==
    [id |-> uuid, amount |-> expense.amount, category |-> expense.category,
     notes |-> expense.notes, date |-> expense.date, paymentMode |-> expense.paymentMode]

ApplyUpdate(state, u) ==
    IF u.kind = "set" THEN u.coll ELSE AppendUpdater(state, u.rec)

\* The render: React runs the queued updates in order on the committed state.
RECURSIVE ApplyUpdates(_, _)
ApplyUpdates(state, q) ==
    IF q = <<>> THEN state
    ELSE ApplyUpdates(ApplyUpdate(state, Head(q)), Tail(q))

Ids(coll) == { coll[i].id : i \in 1..Len(coll) }

\* Identifiers already in use: crypto.randomUUID() returns none of them.
UsedIds ==
    Ids(expenses) \cup { added[i] : i \in 1..Len(added) }
    \cup UNION { Ids(queue[i].coll) : i \in 1..Len(queue) }

(***************************************************************************)
(* The expense store.                                                      *)
(***************************************************************************)
\* A faulty variant of LoadOutcome: no try/catch around the parse.
LoadOutcomeNoCatch(item) ==
    IF ~Truthy(item) THEN [updates |-> <<>>, logged |-> FALSE, err |-> "none"]
    ELSE IF ParseThrows(item) THEN [updates |-> <<>>, logged |-> FALSE, err |-> "load"]
    ELSE [updates |-> <<SetUpdate(ParsedExpenses(item))>>, logged |-> FALSE, err |-> "none"]

\* The body of the load effect: what it enqueues, whether it logs, whether
\* an exception leaves it.
LoadOutcome(item) ==
    IF ~Truthy(item) THEN [updates |-> <<>>, logged |-> FALSE, err |-> "none"]
    ELSE IF ParseThrows(item) THEN [updates |-> <<>>, logged |-> TRUE, err |-> "none"]
    ELSE [updates |-> <<SetUpdate(ParsedExpenses(item))>>, logged |-> FALSE, err |-> "none"]

\* useEffect(() => { ...getItem... }, []): runs once, after the first render.
\* This is the run in which localStorage.getItem returns.
LoadEffect ==
    /\ pc = "mountLoad"
    /\ LET out == LoadOutcome(slot)
       IN  /\ queue' = queue \o out.updates
           /\ logged' = (logged \/ out.logged)
           /\ err' = out.err
           /\ pc' = IF out.err = "none" THEN "mountSave" ELSE "crashed"
    /\ UNCHANGED <<expenses, savePending, slot, slot0, nAdds, added, nWrites, strict>>
    /\ UNCHANGED queryVars
    /\ UNCHANGED uiVars

\* localStorage.getItem('expenses') throws (storage access denied): the read
\* is outside the try, nothing catches the exception and React unmounts the
\* tree.  Nothing was enqueued, logged or written.
LoadEffectThrows ==
    /\ pc = "mountLoad"
    /\ pc' = "crashed"
    /\ err' = "load"
    /\ UNCHANGED <<expenses, queue, savePending, slot, logged, slot0, nAdds, added,
                   nWrites, strict>>
    /\ UNCHANGED queryVars
    /\ UNCHANGED uiVars

\* The save effect is due: after the first render, and after every render in
\* which `expenses` is a new array.
SaveDue == pc = "mountSave" \/ (pc = "running" /\ savePending)

\* localStorage.setItem('expenses', JSON.stringify(expenses)).  Under
\* React.StrictMode (development) the mount effects are run a second time as
\* soon as they have run once, before any queued update is rendered.
SaveEffect ==
    /\ SaveDue
    /\ slot' = JSONStringify(expenses)
    /\ nWrites' = nWrites + 1
    /\ savePending' = FALSE
    /\ pc' = IF pc = "mountSave" /\ strict = "armed" THEN "mountLoad" ELSE "running"
    /\ strict' = IF pc = "mountSave" /\ strict = "armed" THEN "done" ELSE strict
    /\ UNCHANGED <<expenses, queue, logged, err, slot0, nAdds, added>>
    /\ UNCHANGED queryVars
    /\ UNCHANGED uiVars

\* setItem throws (quota exceeded, storage disabled): nothing catches it, and
\* React unmounts the tree.
SaveEffectThrows ==
    /\ SaveDue
    /\ pc' = "crashed"
    /\ err' = "save"
    /\ savePending' = FALSE
    /\ UNCHANGED <<expenses, queue, slot, logged, slot0, nAdds, added, nWrites, strict>>
    /\ UNCHANGED queryVars
    /\ UNCHANGED uiVars

\* A render of ExpenseProvider with state updates pending; pending effects
\* are flushed before it.
Render ==
    /\ pc = "running"
    /\ ~savePending
    /\ queue # <<>>
    /\ expenses' = ApplyUpdates(expenses, queue)
    /\ queue' = <<>>
    /\ savePending' = TRUE
    /\ UNCHANGED <<pc, slot, logged, err, slot0, nAdds, added, nWrites, strict>>
    /\ UNCHANGED queryVars
    /\ UNCHANGED uiVars

\* A faulty variant of AddExpenseEffect: addExpense writes the slot itself before returning.
AddExpenseWritesSlot(newExpense) ==
    /\ queue' = Append(queue, AddUpdate(newExpense))
    /\ slot' = JSONStringify(Append(expenses, newExpense))
    /\ nWrites' = nWrites + 1
    /\ UNCHANGED <<expenses, savePending>>

\* What addExpense does to the store's variables before it returns.
AddExpenseEffect(newExpense) ==
    /\ queue' = Append(queue, AddUpdate(newExpense))
    /\ UNCHANGED <<expenses, slot, nWrites, savePending>>

\* addExpense(expense), called by the form's onSubmit.
AddExpense ==
    /\ pc = "running"
    /\ nAdds < MaxAdds
    /\ \E expense \in FormInputs, uuid \in UUIDs \ UsedIds :
          /\ AddExpenseEffect(NewExpense(expense, uuid))
          /\ added' = Append(added, uuid)
    /\ nAdds' = nAdds + 1
    /\ UNCHANGED <<pc, logged, err, slot0, strict>>
    /\ UNCHANGED queryVars
    /\ UNCHANGED uiVars

NoQuery == [dateFilter |-> "none", categories |-> <<>>, paymentModes |-> <<>>]

\* getMonthlyExpensesByCategory has not been called.
NoAggregate == [called |-> FALSE, months |-> <<>>]

\* ExpenseAnalytics is not rendered (another tab is active).
NoAnalytics == [shown |-> FALSE, categoryTotals |-> [c \in Category |-> 0], totalExpenses |-> 0]

\* The form as useForm creates it: nothing submitted, no errors, no
\* validation in progress.
NoSubmission == [submitted |-> FALSE, values |-> <<>>, errors |-> {}, pending |-> <<>>]

\* The views before any tab has queried the store.
UiIdle ==
    /\ qView = <<>>
    /\ agg = NoAggregate
    /\ analytics = NoAnalytics
    /\ form = NoSubmission

Epoch == MkDate(0, 0)

\* The state when ExpenseProvider is about to run its mount effects; `mode`
\* is "armed" when the root is rendered inside React.StrictMode.
Mounting(mode) ==
    /\ pc = "mountLoad"
    /\ expenses = <<>>
    /\ queue = <<>>
    /\ savePending = FALSE
    /\ slot \in InitialSlots
    /\ slot0 = slot
    /\ logged = FALSE
    /\ err = "none"
    /\ nAdds = 0
    /\ added = <<>>
    /\ nWrites = 0
    /\ today = Epoch
    /\ tz = 0
    /\ qArgs = NoQuery
    /\ qResult = <<>>
    /\ strict = mode
    /\ UiIdle

Init == Mounting("off")

Next ==
    \/ LoadEffect
    \/ LoadEffectThrows
    \/ SaveEffect
    \/ SaveEffectThrows
    \/ Render
    \/ AddExpense

Spec == Init /\ [][Next]_vars

(***************************************************************************)
(* Properties of the expense store.                                        *)
(***************************************************************************)
\* Every state update has been rendered and every due effect has run.
Quiescent == pc = "running" /\ queue = <<>> /\ ~savePending

\* The load effect found no record to load.
StartedEmpty ==
    \/ slot0.kind # "array"
    \/ slot0.items = <<>>
    \/ \E i \in 1..Len(slot0.items) : slot0.items[i] = JNullItem

UniqueIds(coll) ==
    \A i, j \in 1..Len(coll) : i # j => coll[i].id # coll[j].id

IsPrefix(a, b) == Len(a) <= Len(b) /\ SubSeq(b, 1, Len(a)) = a

\* The ids of the records the slot's array holds (none if it holds no array).
SlotIds(item) == { item.items[i].id.js : i \in 1..Len(item.items) }

\* C1: starting from an empty store, once the N addExpense calls made so far
\* are rendered (however they were batched between renders) the collection
\* holds exactly N records, they are the N records added, and no two of them
\* share an identifier.
C1_AddsCounted ==
    (StartedEmpty /\ pc = "running" /\ queue = <<>>) =>
        /\ Len(expenses) = nAdds
        /\ [i \in 1..Len(expenses) |-> expenses[i].id] = added
        /\ UniqueIds(expenses)

C1_Witness ==
    /\ StartedEmpty
    /\ Quiescent
    /\ nAdds = 2
    /\ Len(expenses) = 2
    /\ expenses[1].id # expenses[2].id

\* C2: the store is append-only.  In every step taken after initialization
\* has loaded the collection, the collection before the step is a prefix of
\* the collection after it, and a render appends the queued records at the
\* end, in the order they were added.
C2_AppendOnly ==
    [][ (pc \in {"running", "crashed"} /\ \A i \in 1..Len(queue) : queue[i].kind = "append")
        => /\ IsPrefix(expenses, expenses')
           /\ (queue' # queue /\ queue' = <<>>)
                 => expenses' = expenses \o [i \in 1..Len(queue) |-> queue[i].rec] ]_vars

C2_Witness ==
    /\ Quiescent
    /\ slot0 = JSONStringify(<<SavedRent, SavedFilm>>)
    /\ nAdds = 2
    /\ Len(expenses) = 4
    /\ SubSeq(expenses, 1, 2) = <<SavedRent, SavedFilm>>
    /\ expenses[3].id = added[1]
    /\ expenses[4].id = added[2]

\* C3: after an addExpense, once its persistence step has run, the slot
\* content deserializes to exactly the in-memory collection.
C3_SlotMirrorsStore ==
    (Quiescent /\ nAdds > 0) =>
        /\ slot.kind = "array"
        /\ ~ParseThrows(slot)
        /\ ParsedExpenses(slot) = expenses

\* C4 as claimed: whenever addExpense has returned, the slot already holds
\* the record it added.
C4_WrittenOnReturn ==
    pc = "running" => \A i \in 1..Len(added) : added[i] \in SlotIds(slot)

\* C4 as amended: addExpense itself does not touch the slot (it only
\* enqueues the state update); the record is in the slot once the render and
\* the save effect that follow the call have run and the write has succeeded.
C4_WrittenAfterRender ==
    [][ /\ nAdds' # nAdds => (slot' = slot /\ nWrites' = nWrites)
        /\ Quiescent' => \A i \in 1..Len(added') : added'[i] \in SlotIds(slot') ]_vars

\* addExpense has returned and the slot does not hold its record yet.
C4_Witness ==
    /\ pc = "running"
    /\ nAdds > 0
    /\ added[Len(added)] \notin SlotIds(slot)
    /\ added[Len(added)] = queue[Len(queue)].rec.id

\* C5: the slot is written only after an add: initialization performs no
\* write, and every write is preceded by the addExpense it persists.
C5_WritesOnlyAfterAdd == nWrites > 0 => nAdds > 0

\* Once initialization has been rendered (before any add) the collection is
\* the saved collection when the slot held a valid serialization, empty when
\* the slot was absent, and empty with the failure logged when the text was
\* unparseable, was no array, or held an element that cannot be read.
InitOutcome ==
    (pc = "running" /\ queue = <<>> /\ nAdds = 0) =>
        /\ \A c \in SavedCollections : slot0 = JSONStringify(c) => expenses = c /\ ~logged
        /\ slot0 = NoItem => expenses = <<>> /\ ~logged
        /\ slot0 \in {BadText, NotArray} => expenses = <<>> /\ logged
        /\ (slot0.kind = "array" /\ \E i \in 1..Len(slot0.items) : slot0.items[i] = JNullItem)
              => expenses = <<>> /\ logged

\* C6: a slot holding a valid serialization becomes the collection (dates
\* rebuilt), an absent slot leaves the store empty, and a deserialization
\* that fails leaves the store empty with the failure only logged: the run of
\* the load effect that has read the slot lets no error escape, whatever the
\* slot held.
C6_InitOutcome ==
    /\ []InitOutcome
    /\ [][LoadEffect => (err' = "none" /\ pc' = "mountSave")]_vars

C6_Witness ==
    /\ Quiescent
    /\ nAdds = 0
    /\ slot0 = BadText
    /\ logged
    /\ expenses = <<>>
    /\ err = "none"

\* C7: in every reachable state all records have pairwise distinct
\* identifiers, a category of the closed set and a paymentMode of the closed set.
C7_StoreInvariant ==
    /\ UniqueIds(expenses)
    /\ \A i \in 1..Len(expenses) :
          /\ expenses[i].category \in Category
          /\ expenses[i].paymentMode \in PaymentMode

\* C8: round trip.  For every collection the store holds, the initialize step
\* run on what the persist step writes yields an equal collection: same
\* length, same order, every field equal, dates to the millisecond.
C8_RoundTrip ==
    LoadOutcome(JSONStringify(expenses)) =
        [updates |-> <<SetUpdate(expenses)>>, logged |-> FALSE, err |-> "none"]

(***************************************************************************)
(* The query getFilteredExpenses.                                          *)
(***************************************************************************)
Range(seq) == { seq[i] : i \in 1..Len(seq) }

\* The date filter: the if / else-if chain on dateFilter.
FilterByDate(list, dateFilter, now, zone) ==
    IF dateFilter = "This month" THEN
        LET firstDayOfMonth == StartOfMonth(now, zone)
            lastDayOfMonth  == EndOfMonth(now, zone)
            Keep(expense)   == /\ DateGeq(expense.date, firstDayOfMonth)
                               /\ DateLeq(expense.date, lastDayOfMonth)
        IN  SelectSeq(list, Keep)
    ELSE IF dateFilter = "Last 30 days" THEN
        LET thirtyDaysAgo == SubDays(StartOfDay(now, zone), 30, zone)
            Keep(expense) == DateGeq(expense.date, thirtyDaysAgo)
        IN  SelectSeq(list, Keep)
    ELSE IF dateFilter = "Last 90 Days" THEN
        LET ninetyDaysAgo == SubDays(StartOfDay(now, zone), 90, zone)
            Keep(expense) == DateGeq(expense.date, ninetyDaysAgo)
        IN  SelectSeq(list, Keep)
    ELSE list

\* A faulty variant of FilterByCategory: an empty selection keeps nothing.
FilterByCategoryAlways(list, categories) ==
    LET Keep(expense) == expense.category \in Range(categories)
    IN  SelectSeq(list, Keep)

\* if (categories.length > 0) filter by categories.includes(expense.category)
FilterByCategory(list, categories) ==
    IF Len(categories) > 0 THEN
        LET Keep(expense) == expense.category \in Range(categories)
        IN  SelectSeq(list, Keep)
    ELSE list

\* if (paymentModes.length > 0) filter by paymentModes.includes(expense.paymentMode)
FilterByPaymentMode(list, paymentModes) ==
    IF Len(paymentModes) > 0 THEN
        LET Keep(expense) == expense.paymentMode \in Range(paymentModes)
        IN  SelectSeq(list, Keep)
    ELSE list

\* getFilteredExpenses(dateFilter, categories, paymentModes) on the collection
\* `coll`, with `now` the value of new Date().
GetFilteredExpenses(coll, now, zone, dateFilter, categories, paymentModes) ==
    FilterByPaymentMode(
        FilterByCategory(FilterByDate(coll, dateFilter, now, zone), categories),
        paymentModes)

(***************************************************************************)
(* The queries' inputs: collections whose dates sit on and around the      *)
(* edges of February 2024 (local time), and clock readings in and around   *)
(* that month.                                                             *)
(***************************************************************************)
TimeZones == {-300, 0, 330}

Noon == 12 * 60 * MsPerMinute

\* [date, category, paymentMode] of the sample records, in the zone `zone`.
QueryRecords(zone) ==
    { [date |-> LocalDate(2024, 2, 1, 0, zone), category |-> "Rental", paymentMode |-> "UPI"],
      [date |-> LocalDate(2024, 2, 1, -1, zone), category |-> "Travel", paymentMode |-> "Cash"],
      [date |-> LocalDate(2024, 1, 31, Noon, zone), category |-> "Travel", paymentMode |-> "UPI"],
      [date |-> LocalDate(2024, 2, 29, Noon, zone), category |-> "Rental", paymentMode |-> "Cash"],
      [date |-> LocalDate(2024, 2, 29, MsPerDay - 1, zone), category |-> "Travel", paymentMode |-> "UPI"],
      [date |-> LocalDate(2024, 3, 1, 0, zone), category |-> "Groceries", paymentMode |-> "Cash"],
      [date |-> LocalDate(2024, 4, 10, Noon, zone), category |-> "Travel", paymentMode |-> "Cash"],
      [date |-> InvalidDate, category |-> "Travel", paymentMode |-> "Cash"] }

\* The k-th record of a collection: its identifier is distinct from the others'.
QueryIds == <<"e1", "e2", "e3", "e4">>

QueryExpense(r, k) ==
    [id |-> QueryIds[k], amount |-> 10 * k, category |-> r.category, notes |-> "",
     date |-> r.date, paymentMode |-> r.paymentMode]

QueryCollections(zone) ==
    UNION { { [k \in 1..n |-> QueryExpense(f[k], k)] : f \in [1..n -> QueryRecords(zone)] }
            : n \in 0..MaxLen }

\* Readings of the clock, in the zone `zone`.
QueryClock(zone) ==
    { LocalDate(2024, 1, 31, MsPerDay - 1, zone),
      LocalDate(2024, 2, 1, 0, zone),
      LocalDate(2024, 2, 15, 37800000, zone),
      LocalDate(2024, 2, 29, MsPerDay - 1, zone) }

CategorySelections == { <<>>, <<"Travel", "Groceries">> }

PaymentModeSelections == { <<>>, <<"Cash">> }

\* The list view calls getFilteredExpenses with its current filter selections.
Query ==
    /\ \E now \in QueryClock(tz), dateFilter \in DateFilter,
          categories \in CategorySelections, paymentModes \in PaymentModeSelections :
          /\ DateLeq(today, now)
          /\ today' = now
          /\ qArgs' = [dateFilter |-> dateFilter, categories |-> categories,
                       paymentModes |-> paymentModes]
          /\ qResult' = GetFilteredExpenses(expenses, now, tz, dateFilter,
                                            categories, paymentModes)
    /\ UNCHANGED storeVars
    /\ UNCHANGED tz
    /\ UNCHANGED uiVars

\* A slot that the load effect revives as `coll`: the serialization of coll,
\* an Invalid Date standing for a date member that does not parse.
SlotLoading(coll) ==
    [kind  |-> "array",
     items |-> [k \in 1..Len(coll) |->
                  IF coll[k].date.valid THEN ExpenseToJSON(coll[k])
                  ELSE [ExpenseToJSON(coll[k]) EXCEPT !.date = JNoDate("junk")]]]

\* The provider has mounted on such a slot: load effect, save effect (which
\* writes "[]"), render, save effect.
InitQuery ==
    /\ tz \in TimeZones
    /\ expenses \in QueryCollections(tz)
    /\ pc = "running"
    /\ queue = <<>>
    /\ savePending = FALSE
    /\ slot = JSONStringify(expenses)
    /\ slot0 = SlotLoading(expenses)
    /\ logged = FALSE
    /\ err = "none"
    /\ nAdds = 0
    /\ added = <<>>
    /\ nWrites = 2
    /\ today = Epoch
    /\ qArgs = NoQuery
    /\ qResult = <<>>
    /\ strict = "off"
    /\ UiIdle

NextQuery == Query

SpecQuery == InitQuery /\ [][NextQuery]_vars

(***************************************************************************)
(* Properties of getFilteredExpenses.                                      *)
(***************************************************************************)
Queried == qArgs # NoQuery

\* The instant falls in the calendar month (local time) that contains `now`.
InMonthOf(date, now, zone) ==
    /\ date.valid
    /\ LocalFields(date, zone).y = LocalFields(now, zone).y
    /\ LocalFields(date, zone).m = LocalFields(now, zone).m

\* The instant is at or after local midnight `n` calendar days before `now`'s day.
SinceDaysAgo(date, now, zone, n) ==
    LET f == LocalFields(now, zone)
    IN  DateLeq(LocalDate(f.y, f.m, f.d - n, 0, zone), date)

\* The date predicate the data model gives each dateFilter.
DatePredicate(dateFilter, date, now, zone) ==
    CASE dateFilter = "This month"   -> InMonthOf(date, now, zone)
      [] dateFilter = "Last 30 days" -> SinceDaysAgo(date, now, zone, 30)
      [] dateFilter = "Last 90 Days" -> SinceDaysAgo(date, now, zone, 90)
      [] dateFilter = "All time"     -> TRUE

\* The record satisfies the three predicates of the last query together.
Selected(e) ==
    /\ DatePredicate(qArgs.dateFilter, e.date, today, tz)
    /\ qArgs.categories = <<>> \/ e.category \in Range(qArgs.categories)
    /\ qArgs.paymentModes = <<>> \/ e.paymentMode \in Range(qArgs.paymentModes)

\* The position in the collection of the record with identifier id.
PositionOf(id) == CHOOSE k \in 1..Len(expenses) : expenses[k].id = id

\* C9: the result of getFilteredExpenses is exactly the subsequence, in input
\* order, of the records that satisfy the date predicate AND the category
\* selection AND the paymentMode selection, an empty selection imposing no
\* constraint; with 'All time' and both selections empty it is the whole
\* collection in its original order.
C9_FilterIsConjunction ==
    Queried =>
        /\ \A i \in 1..Len(qResult) : qResult[i] \in Range(expenses)
        /\ \A k \in 1..Len(expenses) : expenses[k] \in Range(qResult) <=> Selected(expenses[k])
        /\ \A i, j \in 1..Len(qResult) :
              i < j => PositionOf(qResult[i].id) < PositionOf(qResult[j].id)
        /\ (qArgs.dateFilter = "All time" /\ qArgs.categories = <<>> /\ qArgs.paymentModes = <<>>)
              => qResult = expenses

\* A query with all three filters active that keeps one record of two and
\* drops one that matches the date and the category but not the paymentMode.
C9_Witness ==
    /\ qArgs = [dateFilter |-> "This month", categories |-> <<"Travel", "Groceries">>,
                paymentModes |-> <<"Cash">>]
    /\ Len(expenses) = 2
    /\ InMonthOf(expenses[1].date, today, tz)
    /\ expenses[1].category = "Travel"
    /\ expenses[1].paymentMode = "UPI"
    /\ qResult = <<expenses[2]>>

\* C10: with 'This month' (and no other filter) a record is kept iff its date
\* lies in the calendar month containing today, first and last day included:
\* a record dated the day before the first day is dropped, one dated at any
\* time of the last day is kept, one dated in a later month is dropped.
C10_ThisMonth ==
    (Queried /\ qArgs.dateFilter = "This month"
             /\ qArgs.categories = <<>> /\ qArgs.paymentModes = <<>>) =>
        \A k \in 1..Len(expenses) :
            expenses[k] \in Range(qResult) <=> InMonthOf(expenses[k].date, today, tz)

\* Today is in February 2024; the record of the last millisecond of 29
\* February is kept and the record of noon, 31 January, is dropped.
C10_Witness ==
    /\ qArgs = [dateFilter |-> "This month", categories |-> <<>>, paymentModes |-> <<>>]
    /\ today = LocalDate(2024, 2, 15, 37800000, tz)
    /\ Len(expenses) = 2
    /\ expenses[1].date = LocalDate(2024, 1, 31, Noon, tz)
    /\ expenses[2].date = LocalDate(2024, 2, 29, MsPerDay - 1, tz)
    /\ qResult = <<expenses[2]>>

\* ---------------------------------------------------------------------------
\* The rolling windows of the list view: 'Last 30 days' and 'Last 90 Days'

\* Readings of the clock for the rolling windows, in the zone `zone`.
RecentClock(zone) ==
    { LocalDate(2024, 3, 15, 37800000, zone),
      LocalDate(2024, 3, 31, MsPerDay - 1, zone) }

\* [date, category, paymentMode] of records at the edges of the windows of
\* 15 March 2024: 14 February and 16 December are 30 and 90 days before it.
RecentRecords(zone) ==
    { [date |-> LocalDate(2024, 2, 14, 0, zone), category |-> "Rental", paymentMode |-> "UPI"],
      [date |-> LocalDate(2024, 2, 14, -1, zone), category |-> "Travel", paymentMode |-> "Cash"],
      [date |-> LocalDate(2024, 2, 13, 0, zone), category |-> "Travel", paymentMode |-> "UPI"],
      [date |-> LocalDate(2023, 12, 16, 0, zone), category |-> "Groceries", paymentMode |-> "Cash"],
      [date |-> LocalDate(2023, 12, 15, 0, zone), category |-> "Travel", paymentMode |-> "Cash"],
      [date |-> LocalDate(2024, 3, 1, 0, zone), category |-> "Others", paymentMode |-> "UPI"],
      [date |-> LocalDate(2025, 1, 1, Noon, zone), category |-> "Travel", paymentMode |-> "Cash"],
      [date |-> InvalidDate, category |-> "Travel", paymentMode |-> "Cash"] }

RecentCollections(zone) ==
    UNION { { [k \in 1..n |-> QueryExpense(f[k], k)] : f \in [1..n -> RecentRecords(zone)] }
            : n \in 0..MaxLen }

\* The list view with one of the rolling windows selected as its dateFilter.
QueryRecent ==
    /\ \E now \in RecentClock(tz), dateFilter \in {"Last 30 days", "Last 90 Days"},
          categories \in CategorySelections, paymentModes \in PaymentModeSelections :
          /\ DateLeq(today, now)
          /\ today' = now
          /\ qArgs' = [dateFilter |-> dateFilter, categories |-> categories,
                       paymentModes |-> paymentModes]
          /\ qResult' = GetFilteredExpenses(expenses, now, tz, dateFilter,
                                            categories, paymentModes)
    /\ UNCHANGED storeVars
    /\ UNCHANGED tz
    /\ UNCHANGED uiVars

\* A store that has mounted on a slot that loads as `coll` (load effect, save
\* effect, render, save effect) in the zone `zone`, nothing queried yet.
StoreHolds(coll, zone) ==
    /\ pc = "running"
    /\ tz = zone
    /\ expenses = coll
    /\ queue = <<>>
    /\ savePending = FALSE
    /\ slot = JSONStringify(coll)
    /\ slot0 = SlotLoading(coll)
    /\ logged = FALSE
    /\ err = "none"
    /\ nAdds = 0
    /\ added = <<>>
    /\ nWrites = 2
    /\ today = Epoch
    /\ qArgs = NoQuery
    /\ qResult = <<>>
    /\ strict = "off"
    /\ UiIdle

InitRecent == \E zone \in TimeZones : \E coll \in RecentCollections(zone) : StoreHolds(coll, zone)

NextRecent == QueryRecent

SpecRecent == InitRecent /\ [][NextRecent]_vars

\* The number of days of the rolling window of the last query.
WindowDays == IF qArgs.dateFilter = "Last 30 days" THEN 30 ELSE 90

\* Local midnight `n` calendar days before the day of `now`.
MidnightDaysAgo(now, zone, n) ==
    LET f == LocalFields(now, zone)
    IN  LocalDate(f.y, f.m, f.d - n, 0, zone)

\* C11: with 'Last 30 days' (resp. 'Last 90 Days') and no other filter a
\* record is kept iff its date is at or after the start of today minus 30
\* (resp. 90) days; there is no upper bound, so a record dated after today is
\* kept; a record dated exactly at the lower-bound instant is kept and a
\* record dated one day before that instant is dropped.
C11_LastDays ==
    (qArgs.dateFilter \in {"Last 30 days", "Last 90 Days"}
        /\ qArgs.categories = <<>> /\ qArgs.paymentModes = <<>>) =>
        \A k \in 1..Len(expenses) :
            LET e     == expenses[k]
                kept  == e \in Range(qResult)
                bound == MidnightDaysAgo(today, tz, WindowDays)
            IN  /\ kept <=> SinceDaysAgo(e.date, today, tz, WindowDays)
                /\ (e.date.valid /\ DateLeq(today, e.date)) => kept
                /\ e.date = bound => kept
                /\ e.date = MidnightDaysAgo(today, tz, WindowDays + 1) => ~kept

\* Today is 15 March 2024, 10:30; of the records of midnight, 14 February
\* (30 days before) and midnight, 13 February, 'Last 30 days' keeps the first.
C11_Witness ==
    /\ qArgs = [dateFilter |-> "Last 30 days", categories |-> <<>>, paymentModes |-> <<>>]
    /\ today = LocalDate(2024, 3, 15, 37800000, tz)
    /\ Len(expenses) = 2
    /\ expenses[1].date = LocalDate(2024, 2, 14, 0, tz)
    /\ expenses[2].date = LocalDate(2024, 2, 13, 0, tz)
    /\ qResult = <<expenses[1]>>

\* ---------------------------------------------------------------------------
\* Monthly aggregation: getMonthlyExpensesByCategory and ExpenseAnalytics

\* addMonths(date, n): the same day and time n months later, the day clamped
\* to the length of the target month.
AddMonths(date, n, zone) ==
    LET f           == LocalFields(date, zone)
        months      == f.y * 12 + (f.m - 1) + n
        y           == months \div 12
        m           == (months % 12) + 1
        daysInMonth == DaysFromCivil(y, m + 1, 1) - DaysFromCivil(y, m, 1)
        d           == IF f.d >= daysInMonth THEN daysInMonth ELSE f.d
    IN  IF date.valid THEN LocalDate(y, m, d, f.ms, zone) ELSE InvalidDate

\* new Date(Math.min(...dates.map(date => date.getTime()))): NaN if any time is NaN
MinDate(dates) ==
    IF \E k \in 1..Len(dates) : ~dates[k].valid THEN InvalidDate
    ELSE CHOOSE d \in Range(dates) : \A e \in Range(dates) : DateLeq(d, e)

\* new Date(Math.max(...dates.map(date => date.getTime())))
MaxDate(dates) ==
    IF \E k \in 1..Len(dates) : ~dates[k].valid THEN InvalidDate
    ELSE CHOOSE d \in Range(dates) : \A e \in Range(dates) : DateLeq(e, d)

\* Strings.  The text of a record is a string of printable ASCII characters
\* (all but the grave accent, which no string literal here can hold), tab,
\* line feed, form feed and carriage return; what the string methods work
\* on, and what the user types in the search box, is its sequence of UTF-16
\* code units, which can hold every character.

\* The characters U+0020 to U+005F, in code order.
AsciiLow == " !\"#$%&'()*+,-./0123456789:;<=>?@ABCDEFGHIJKLMNOPQRSTUVWXYZ[\\]^_"

\* The characters U+0061 to U+007E, in code order.
AsciiHigh == "abcdefghijklmnopqrstuvwxyz{|}~"

\* The code unit of each character a record's text can hold.
CodeOf ==
    [c \in { SubSeq(AsciiLow, i, i) : i \in 1..Len(AsciiLow) }
             \cup { SubSeq(AsciiHigh, i, i) : i \in 1..Len(AsciiHigh) }
             \cup {"\t", "\n", "\f", "\r"} |->
        CASE c = "\t" -> 9
          [] c = "\n" -> 10
          [] c = "\f" -> 12
          [] c = "\r" -> 13
          [] \E i \in 1..Len(AsciiLow) : SubSeq(AsciiLow, i, i) = c ->
                31 + (CHOOSE i \in 1..Len(AsciiLow) : SubSeq(AsciiLow, i, i) = c)
          [] OTHER ->
                96 + (CHOOSE i \in 1..Len(AsciiHigh) : SubSeq(AsciiHigh, i, i) = c)]

\* The code units of a text.
CodeUnits(text) == [i \in 1..Len(text) |-> CodeOf[SubSeq(text, i, i)]]

\* The code units String.prototype.trim strips, WhiteSpace and LineTerminator
\* of ECMAScript: U+0009..U+000D, U+0020, U+00A0, U+1680, U+2000..U+200A,
\* U+2028, U+2029, U+202F, U+205F, U+3000, U+FEFF.
WhiteSpace ==
    (9..13) \cup {32, 160, 5760} \cup (8192..8202) \cup {8232, 8233, 8239, 8287, 12288, 65279}

\* Basic Latin and Latin-1 Supplement, U+0000 to U+00FF.
Latin1 == 0..255

\* The upper-case letters among them: A-Z, and U+00C0..U+00DE without the
\* multiplication sign U+00D7.
Latin1Upper == (65..90) \cup ((192..222) \ {215})

\* One code unit lower-cased.  Defined on Latin1 and on the white space; the
\* case mappings of the other scripts are not part of this model, and a code
\* unit outside the two sets has no value here.
LowerChar(c) ==
    CASE c \in Latin1Upper -> c + 32
      [] c \in Latin1 \ Latin1Upper -> c
      [] c \in WhiteSpace -> c

\* text.toLowerCase()
LowerCase(text) == [i \in 1..Len(text) |-> LowerChar(text[i])]

\* text.trim()
RECURSIVE Trim(_)
Trim(text) ==
    IF text = <<>> THEN <<>>
    ELSE IF text[1] \in WhiteSpace THEN Trim(SubSeq(text, 2, Len(text)))
    ELSE IF text[Len(text)] \in WhiteSpace THEN Trim(SubSeq(text, 1, Len(text) - 1))
    ELSE text

\* text.includes(term)
Includes(text, term) ==
    \E i \in 1..(Len(text) - Len(term) + 1) : SubSeq(text, i, i + Len(term) - 1) = term

\* amount.toString() of a whole number.
RECURSIVE NumberToString(_)
NumberToString(n) ==
    IF n < 0 THEN "-" \o NumberToString(-n)
    ELSE IF n < 10 THEN SubSeq("0123456789", n + 1, n + 1)
    ELSE NumberToString(n \div 10) \o SubSeq("0123456789", (n % 10) + 1, (n % 10) + 1)

ShortMonth == <<"Jan", "Feb", "Mar", "Apr", "May", "Jun",
                "Jul", "Aug", "Sep", "Oct", "Nov", "Dec">>

\* The year as the en-US locale prints it: the year of the era, so that the
\* year 0 (1 BC) is 1 and the year -1 (2 BC) is 2; the era itself is not printed.
EraYear(y) == IF y <= 0 THEN 1 - y ELSE y

\* toLocaleDateString('en-US', { month: 'short', year: 'numeric' }), e.g. "Jan 2024"
MonthYear(date, zone) ==
    LET f == LocalFields(date, zone)
    IN  ShortMonth[f.m] \o " " \o NumberToString(EraYear(f.y))

\* The values a property of a monthly entry can hold: a number, NaN, a
\* string, and undefined for a property that is not there.
Num(n) == [nan |-> FALSE, n |-> n]

NaN == [nan |-> TRUE, n |-> 0]

Str(text) == [str |-> text]

Undefined == [undefined |-> TRUE]

\* The sum of the amounts of a sequence of records, left to right.
RECURSIVE SumAmounts(_)
SumAmounts(list) ==
    IF list = <<>> THEN 0
    ELSE SumAmounts(SubSeq(list, 1, Len(list) - 1)) + list[Len(list)].amount

\* The functions every object inherits from Object.prototype.
ObjectPrototypeFunctions ==
    {"constructor", "hasOwnProperty", "isPrototypeOf", "propertyIsEnumerable",
     "toLocaleString", "toString", "valueOf", "__defineGetter__",
     "__defineSetter__", "__lookupGetter__", "__lookupSetter__"}

\* String(f) of such a function.
FunctionText(key) ==
    "function " \o (IF key = "constructor" THEN "Object" ELSE key) \o "() { [native code] }"

\* monthData[key]: the label for "month", an own total, else what
\* Object.prototype provides, else undefined.
GetProperty(monthData, key) ==
    IF key = "month" THEN Str(monthData.month)
    ELSE IF key \in DOMAIN monthData.totals THEN monthData.totals[key]
    ELSE IF key = "__proto__" THEN Str("[object Object]")
    ELSE IF key \in ObjectPrototypeFunctions THEN Str(FunctionText(key))
    ELSE Undefined

\* value + amount: a string (or an object, through its string) is
\* concatenated with the amount's text, undefined and NaN give NaN.
Plus(value, amount) ==
    IF "str" \in DOMAIN value THEN Str(value.str \o NumberToString(amount))
    ELSE IF "undefined" \in DOMAIN value THEN NaN
    ELSE IF value.nan THEN NaN
    ELSE Num(value.n + amount)

\* monthData[key] = value: "month" overwrites the label, "__proto__" given a
\* string changes nothing, any other key becomes or stays an own property.
SetProperty(monthData, key, value) ==
    IF key = "month" THEN [monthData EXCEPT !.month = value.str]
    ELSE IF key = "__proto__" THEN monthData
    ELSE [monthData EXCEPT !.totals =
             [k \in (DOMAIN monthData.totals) \cup {key} |->
                 IF k = key THEN value ELSE monthData.totals[k]]]

\* expenses.forEach over the records of the month, in the collection's order:
\* monthData[expense.category] = monthData[expense.category] + expense.amount
RECURSIVE AddAmounts(_, _)
AddAmounts(monthData, hits) ==
    IF hits = <<>> THEN monthData
    ELSE LET before  == AddAmounts(monthData, SubSeq(hits, 1, Len(hits) - 1))
             expense == hits[Len(hits)]
         IN  SetProperty(before, expense.category,
                         Plus(GetProperty(before, expense.category), expense.amount))

\* One pass of the loop body: the entry of the month that starts at
\* currentDate, its label and the five totals from 0, then the month's records.
MonthData(currentDate, coll, zone) ==
    LET monthStart == StartOfMonth(currentDate, zone)
        monthEnd   == EndOfMonth(currentDate, zone)
        InMonth(expense) == /\ DateGeq(expense.date, monthStart)
                            /\ DateLeq(expense.date, monthEnd)
    IN  AddAmounts([month  |-> MonthYear(currentDate, zone),
                    totals |-> [category \in Category |-> Num(0)]],
                   SelectSeq(coll, InMonth))

\* while (currentDate <= endDate) { months.push(monthData); currentDate = addMonths(currentDate, 1) }
RECURSIVE MonthsFrom(_, _, _, _)
MonthsFrom(currentDate, endDate, coll, zone) ==
    IF ~DateLeq(currentDate, endDate) THEN <<>>
    ELSE <<MonthData(currentDate, coll, zone)>>
         \o MonthsFrom(AddMonths(currentDate, 1, zone), endDate, coll, zone)

GetMonthlyExpensesByCategory(coll, zone) ==
    IF Len(coll) = 0 THEN <<>>
    ELSE LET dates        == [k \in 1..Len(coll) |-> coll[k].date]
             earliestDate == MinDate(dates)
             latestDate   == MaxDate(dates)
             startDate    == StartOfMonth(earliestDate, zone)
             endDate      == EndOfMonth(latestDate, zone)
         IN  MonthsFrom(startDate, endDate, coll, zone)

\* (month[category] as number) || 0: undefined, NaN and 0 give 0
OrZero(totals, category) ==
    IF category \notin DOMAIN totals THEN 0
    ELSE IF totals[category].nan THEN 0
    ELSE totals[category].n

\* The sum over the entries of the total of one category.
RECURSIVE SumCategory(_, _)
SumCategory(months, category) ==
    IF months = <<>> THEN 0
    ELSE SumCategory(SubSeq(months, 1, Len(months) - 1), category)
         + OrZero(months[Len(months)].totals, category)

\* ExpenseAnalytics.categoryTotals
CategoryTotals(months) == [category \in Category |-> SumCategory(months, category)]

\* ExpenseAnalytics.totalExpenses: categoryTotals.reduce((sum, { amount }) => sum + amount, 0)
RECURSIVE SumTotals(_, _)
SumTotals(totals, categories) ==
    IF categories = {} THEN 0
    ELSE LET c == CHOOSE x \in categories : TRUE
         IN  totals[c] + SumTotals(totals, categories \ {c})

\* ExpenseAnalytics renders: it aggregates the store's collection and derives
\* the per-category totals and the grand total from the monthly entries.
ViewAnalytics ==
    /\ agg' = [called |-> TRUE, months |-> GetMonthlyExpensesByCategory(expenses, tz)]
    /\ analytics' = [shown |-> TRUE,
                     categoryTotals |-> CategoryTotals(agg'.months),
                     totalExpenses  |-> SumTotals(CategoryTotals(agg'.months), Category)]
    /\ UNCHANGED storeVars
    /\ UNCHANGED queryVars
    /\ UNCHANGED <<qView, form>>

\* [date, category, paymentMode] of records around month and year ends; one
\* carries an Invalid Date, one a category outside the five and one the
\* category "month", as records loaded from a slot the application did not
\* write can.
MonthlyRecords(zone) ==
    { [date |-> LocalDate(2024, 1, 15, Noon, zone), category |-> "Groceries", paymentMode |-> "UPI"],
      [date |-> LocalDate(2024, 3, 10, Noon, zone), category |-> "Travel", paymentMode |-> "Cash"],
      [date |-> LocalDate(2024, 1, 31, MsPerDay - 1, zone), category |-> "Groceries", paymentMode |-> "Cash"],
      [date |-> LocalDate(2024, 2, 1, 0, zone), category |-> "Rental", paymentMode |-> "UPI"],
      [date |-> LocalDate(2023, 12, 31, MsPerDay - 1, zone), category |-> "Travel", paymentMode |-> "Cash"],
      [date |-> LocalDate(2024, 3, 10, Noon, zone), category |-> "Food", paymentMode |-> "Cash"],
      [date |-> LocalDate(2024, 1, 15, Noon, zone), category |-> "month", paymentMode |-> "UPI"],
      [date |-> InvalidDate, category |-> "Travel", paymentMode |-> "Cash"] }

\* Records of December of the year 0 (1 BC) and of February of the year 1.
AncientRecords(zone) ==
    { [date |-> LocalDate(0, 12, 15, Noon, zone), category |-> "Rental", paymentMode |-> "Cash"],
      [date |-> LocalDate(1, 2, 15, Noon, zone), category |-> "Travel", paymentMode |-> "UPI"] }

\* Collections of up to MaxLen of the records above, and of the ancient ones.
MonthlyCollections(zone) ==
    UNION { { [k \in 1..n |-> QueryExpense(f[k], k)] :
                f \in [1..n -> MonthlyRecords(zone)] \cup [1..n -> AncientRecords(zone)] }
            : n \in 0..MaxLen }

InitMonthly == \E zone \in TimeZones : \E coll \in MonthlyCollections(zone) : StoreHolds(coll, zone)

NextMonthly == ViewAnalytics

SpecMonthly == InitMonthly /\ [][NextMonthly]_vars

\* The index of the local calendar month of an instant: 12 * year + month - 1.
MonthIndex(date, zone) == LocalFields(date, zone).y * 12 + LocalFields(date, zone).m - 1

\* The label of the calendar month with that index: the short month name and
\* the year of the era (1 for the year 0, which is 1 BC).
MonthLabel(index) ==
    LET year == index \div 12
    IN  ShortMonth[(index % 12) + 1] \o " "
        \o NumberToString(IF year >= 1 THEN year ELSE 1 - year)

\* The indices of the calendar months of the records that carry a date.
RecordMonths == { MonthIndex(expenses[k].date, tz) : k \in { j \in 1..Len(expenses) : expenses[j].date.valid } }

FirstMonth == CHOOSE lo \in RecordMonths : \A x \in RecordMonths : lo <= x

LastMonth == CHOOSE hi \in RecordMonths : \A x \in RecordMonths : x <= hi

\* Every record of the collection carries a valid date, and none the category
\* "month", the name of the entry's label.
DatedRecords ==
    \A k \in 1..Len(expenses) : expenses[k].date.valid /\ expenses[k].category # "month"

\* Every record of the collection carries a valid date and one of the five categories.
WellFormedRecords ==
    \A k \in 1..Len(expenses) : expenses[k].date.valid /\ expenses[k].category \in Category

\* The entries are those of the months FirstMonth..LastMonth, in order, one each.
OneEntryPerMonth ==
    /\ Len(agg.months) = LastMonth - FirstMonth + 1
    /\ \A i \in 1..Len(agg.months) : agg.months[i].month = MonthLabel(FirstMonth + i - 1)

\* C12: getMonthlyExpensesByCategory returns the empty sequence for the empty
\* collection; for a non-empty collection it returns exactly one entry per
\* calendar month from the month of the earliest record date to the month of
\* the latest record date inclusive, in chronological order, none skipped and
\* none repeated.
C12_OneEntryPerMonth ==
    agg.called =>
        /\ expenses = <<>> => agg.months = <<>>
        /\ RecordMonths # {} => OneEntryPerMonth

\* C12 for the collections whose records all carry a valid date and none the
\* category "month".
C12_ValidDates ==
    (agg.called /\ expenses # <<>> /\ DatedRecords) => OneEntryPerMonth

\* Records of January and March 2024: entries for January, February, March.
C12_ValidDatesWitness ==
    /\ agg.called
    /\ Len(agg.months) = 3
    /\ agg.months[2].month = "Feb 2024"
    /\ \A c \in Category : agg.months[2].totals[c] = Num(0)

\* The records of the collection dated in the month of entry i (the i-th
\* month from the first), of category c.
RecordsOf(i, c) ==
    LET In(expense) == /\ expense.date.valid
                       /\ MonthIndex(expense.date, tz) = FirstMonth + i - 1
                       /\ expense.category = c
    IN  SelectSeq(expenses, In)

\* The entries that stand for the month of the record's date.
EntriesOf(expense) ==
    { i \in 1..Len(agg.months) :
        /\ expense.date.valid
        /\ MonthIndex(expense.date, tz) = FirstMonth + i - 1 }

\* Every entry has the five totals, each the sum of the month's records of the category.
EntriesSumTheirMonth ==
    \A i \in 1..Len(agg.months) : \A c \in Category :
        /\ c \in DOMAIN agg.months[i].totals
        /\ agg.months[i].totals[c] = Num(SumAmounts(RecordsOf(i, c)))

\* C13: every entry carries a total for each of the five categories; the
\* total for (month m, category c) equals the sum of the amounts of exactly
\* those records whose date falls in m and whose category is c (zero if
\* none); every record contributes to exactly one monthly entry.
C13_MonthlySums ==
    agg.called =>
        /\ EntriesSumTheirMonth
        /\ \A k \in 1..Len(expenses) : Cardinality(EntriesOf(expenses[k])) = 1

\* C13 for the collections whose records all carry a valid date and none the
\* category "month".
C13_ValidDates ==
    (agg.called /\ DatedRecords) =>
        /\ EntriesSumTheirMonth
        /\ \A k \in 1..Len(expenses) : Cardinality(EntriesOf(expenses[k])) = 1

\* Two January records of one category are summed in one entry.
C13_ValidDatesWitness ==
    /\ agg.called
    /\ Len(expenses) = 2
    /\ Len(agg.months) = 1
    /\ agg.months[1].month = "Jan 2024"
    /\ agg.months[1].totals["Groceries"] = Num(30)

\* The sum of the amounts of the records of one category.
StoreCategorySum(c) ==
    LET Of(expense) == expense.category = c
    IN  SumAmounts(SelectSeq(expenses, Of))

\* C18: the sum over all monthly entries and all five categories of the
\* totals equals the sum of the amounts of all records of the collection, so
\* the analytics per-category totals and 'Total Expenses' equal the store's
\* corresponding sums.
C18_Conservation ==
    agg.called =>
        /\ SumTotals([c \in Category |-> SumCategory(agg.months, c)], Category) = SumAmounts(expenses)
        /\ analytics.totalExpenses = SumAmounts(expenses)
        /\ \A c \in Category : analytics.categoryTotals[c] = StoreCategorySum(c)

\* C18 for the collections whose records all carry a valid date and one of
\* the five categories.
C18_WellFormed ==
    (agg.called /\ WellFormedRecords) =>
        /\ SumTotals([c \in Category |-> SumCategory(agg.months, c)], Category) = SumAmounts(expenses)
        /\ analytics.totalExpenses = SumAmounts(expenses)
        /\ \A c \in Category : analytics.categoryTotals[c] = StoreCategorySum(c)

\* Records of two months and two categories: the grand total is their sum.
C18_WellFormedWitness ==
    /\ analytics.shown
    /\ Len(expenses) = 2
    /\ Len(agg.months) = 3
    /\ analytics.categoryTotals["Groceries"] = 10
    /\ analytics.categoryTotals["Travel"] = 20
    /\ analytics.totalExpenses = 30

\* ---------------------------------------------------------------------------
\* The list view: ExpenseList.filteredExpenses (query, search, in-place sort)

\* The arrays one evaluation of filteredExpenses has in hand, in the order
\* they were made: the first is the state array `expenses`, the last is the
\* array the local variable refers to.  filter makes a new array, sort
\* reorders the array it is called on.
Current(arrays) == arrays[Len(arrays)]

\* A faulty variant of SpreadCopy: let filteredExpenses = expenses, the
\* variable refers to the state array itself.
ShareArray(arrays) == arrays

\* let filteredExpenses = [...expenses]: a new array with the same records.
SpreadCopy(arrays) == Append(arrays, Head(arrays))

\* if (dateFilter === 'This month') filteredExpenses = filteredExpenses.filter(...),
\* and likewise for the two rolling windows: a new array when one applies.
DateFiltered(arrays, dateFilter, now, zone) ==
    IF dateFilter \in {"This month", "Last 30 days", "Last 90 Days"}
    THEN Append(arrays, FilterByDate(Current(arrays), dateFilter, now, zone))
    ELSE arrays

\* if (categories.length > 0) filteredExpenses = filteredExpenses.filter(...)
CategoryFiltered(arrays, categories) ==
    IF Len(categories) > 0
    THEN Append(arrays, FilterByCategory(Current(arrays), categories))
    ELSE arrays

\* if (paymentModes.length > 0) filteredExpenses = filteredExpenses.filter(...)
PaymentModeFiltered(arrays, paymentModes) ==
    IF Len(paymentModes) > 0
    THEN Append(arrays, FilterByPaymentMode(Current(arrays), paymentModes))
    ELSE arrays

\* getFilteredExpenses, array by array: the copy, then one new array for
\* each filter that is applied; the last array is the one returned.
QueryArrays(arrays, now, zone, dateFilter, categories, paymentModes) ==
    PaymentModeFiltered(
        CategoryFiltered(DateFiltered(SpreadCopy(arrays), dateFilter, now, zone), categories),
        paymentModes)

\* What the user can have typed in the search box: nothing, a word, a blank,
\* a vertical tab (U+000B), a digit.
SearchTerms == { <<>>, CodeUnits("Cash"), <<32>>, <<11>>, CodeUnits("2") }

\* The search predicate of the list view.
MatchesSearch(expense, lowerSearchTerm) ==
    \/ Includes(LowerCase(CodeUnits(expense.notes)), lowerSearchTerm)
    \/ Includes(LowerCase(CodeUnits(expense.category)), lowerSearchTerm)
    \/ Includes(CodeUnits(NumberToString(expense.amount)), lowerSearchTerm)
    \/ Includes(LowerCase(CodeUnits(expense.paymentMode)), lowerSearchTerm)

\* if (searchTerm.trim() !== '') expenses = expenses.filter(...)
SearchExpenses(list, searchTerm) ==
    LET Found(expense) == MatchesSearch(expense, LowerCase(searchTerm))
    IN  IF Trim(searchTerm) # <<>> THEN SelectSeq(list, Found) ELSE list

\* The search step, array by array: a new array when the term is not blank.
SearchArrays(arrays, searchTerm) ==
    IF Trim(searchTerm) # <<>>
    THEN Append(arrays, SearchExpenses(Current(arrays), searchTerm))
    ELSE arrays

\* The sign of the comparator (a, b) => ...; NaN (an Invalid Date) counts as 0.
CompareExpenses(a, b, sortField, sortDirection) ==
    LET asc == IF sortField = "date"
               THEN IF ~(a.date.valid /\ b.date.valid) THEN 0
                    ELSE IF a.date = b.date THEN 0
                    ELSE IF DateLeq(a.date, b.date) THEN -1 ELSE 1
               ELSE IF a.amount < b.amount THEN -1
                    ELSE IF a.amount = b.amount THEN 0 ELSE 1
    IN  IF sortDirection = "asc" THEN asc ELSE -asc

\* Array.prototype.sort with a consistent comparator: a stable sort.
RECURSIVE SortExpenses(_, _, _)
SortExpenses(list, sortField, sortDirection) ==
    IF list = <<>> THEN <<>>
    ELSE LET n      == Len(list)
             x      == list[n]
             sorted == SortExpenses(SubSeq(list, 1, n - 1), sortField, sortDirection)
             NotAfter(y) == CompareExpenses(y, x, sortField, sortDirection) <= 0
             After(y)    == CompareExpenses(y, x, sortField, sortDirection) > 0
         IN  SelectSeq(sorted, NotAfter) \o <<x>> \o SelectSeq(sorted, After)

\* The orders sort can leave the array in: the stable order, or, when an
\* Invalid Date makes the comparator inconsistent, an order the engine chooses.
SortOutcomes(list, sortField, sortDirection) ==
    IF sortField = "date" /\ \E k \in 1..Len(list) : ~list[k].date.valid
    THEN { [i \in 1..Len(list) |-> list[p[i]]] :
             p \in { q \in [1..Len(list) -> 1..Len(list)] :
                       \A i, j \in 1..Len(list) : i # j => q[i] # q[j] } }
    ELSE { SortExpenses(list, sortField, sortDirection) }

\* expenses.sort(...): the array the variable refers to is reordered in
\* place, the other arrays are not touched.
SortedArrays(arrays, sortField, sortDirection) ==
    { [arrays EXCEPT ![Len(arrays)] = view] :
        view \in SortOutcomes(Current(arrays), sortField, sortDirection) }

\* The reading of the clock while the list view is open.
ViewClock(zone) == { LocalDate(2024, 2, 15, 37800000, zone) }

\* filteredExpenses: the query, the search filter and the sort, which
\* reorders in place the array it is called on; the state array is what it
\* is after that.
ListView ==
    \E now \in ViewClock(tz), dateFilter \in {"All time", "This month"},
       categories \in CategorySelections, paymentModes \in PaymentModeSelections,
       searchTerm \in SearchTerms, sortField \in {"date", "amount"},
       sortDirection \in {"asc", "desc"} :
        /\ DateLeq(today, now)
        /\ today' = now
        /\ qArgs' = [dateFilter |-> dateFilter, categories |-> categories,
                     paymentModes |-> paymentModes]
        /\ qResult' = Current(QueryArrays(<<expenses>>, now, tz, dateFilter,
                                          categories, paymentModes))
        /\ \E sorted \in SortedArrays(
                  SearchArrays(QueryArrays(<<expenses>>, now, tz, dateFilter,
                                           categories, paymentModes), searchTerm),
                  sortField, sortDirection) :
              /\ qView' = Current(sorted)
              /\ expenses' = Head(sorted)
        /\ UNCHANGED <<pc, queue, savePending, slot, logged, err, slot0,
                       nAdds, added, nWrites, strict>>
        /\ UNCHANGED <<tz, agg, analytics, form>>

\* [date, category, paymentMode] of the sample records of the list view.
ViewRecords(zone) ==
    { [date |-> LocalDate(2024, 2, 1, 0, zone), category |-> "Rental", paymentMode |-> "UPI"],
      [date |-> LocalDate(2024, 1, 31, Noon, zone), category |-> "Travel", paymentMode |-> "Cash"],
      [date |-> InvalidDate, category |-> "Groceries", paymentMode |-> "Cash"] }

ViewCollections(zone) ==
    UNION { { [k \in 1..n |-> QueryExpense(f[k], k)] : f \in [1..n -> ViewRecords(zone)] }
            : n \in 0..MaxLen }

InitViews == \E zone \in TimeZones : \E coll \in ViewCollections(zone) : StoreHolds(coll, zone)

NextViews ==
    \/ ListView
    \/ ViewAnalytics

SpecViews == InitViews /\ [][NextViews]_vars

\* C14: the queries are pure with respect to the store: a step of the list
\* view (query, search, sort of the result) or of the monthly aggregation
\* leaves the store's collection unchanged in content and order and does not
\* write the durable slot; a query repeated in a later step, after sorts and
\* aggregations, with the same collection, the same arguments and the same
\* 'today' returns the same output as before.
C14_QueriesArePure ==
    [][ /\ expenses' = expenses
        /\ slot' = slot
        /\ nWrites' = nWrites
        /\ queue' = queue
        /\ savePending' = savePending
        /\ (Queried /\ qArgs' = qArgs /\ today' = today) => qResult' = qResult
        /\ (agg.called /\ agg'.called) => agg'.months = agg.months ]_vars

\* The view has sorted the unfiltered result into another order than the
\* store's, the store keeps its order, and the aggregation has run as well.
C14_Witness ==
    /\ qArgs = [dateFilter |-> "All time", categories |-> <<>>, paymentModes |-> <<>>]
    /\ Len(expenses) = 2
    /\ qResult = expenses
    /\ qView = <<expenses[2], expenses[1]>>
    /\ agg.called
    /\ Len(agg.months) = 2
    /\ slot = JSONStringify(expenses)

\* ---------------------------------------------------------------------------
\* The form: formSchema and handleSubmit(onSubmit)

\* .min(1, 'Amount must be at least 1')
AmountMin == 1

\* .max(100, 'Notes must be less than 100 characters')
NotesMax == 100

\* e.target.valueAsNumber of the number input holding `text`, in hundredths;
\* NaN when the box is empty.
ValueAsNumber(text) ==
    IF text = "" THEN [nan |-> TRUE, hundredths |-> 0]
    ELSE [nan |-> FALSE,
          hundredths |-> CASE text = "0"   -> 0
                           [] text = "-5"  -> -500
                           [] text = "0.5" -> 50
                           [] text = "1"   -> 100
                           [] text = "250" -> 25000]

\* The amount field: undefined until the user types, then the number the
\* change handler passes to field.onChange.
NoAmount == [defined |-> FALSE, number |-> [nan |-> TRUE, hundredths |-> 0]]

AmountText(text) == [defined |-> TRUE, number |-> ValueAsNumber(text)]

\* z.coerce.number(): Number(input), in hundredths; Number(undefined) is NaN
\* and Number of a number is that number.
CoerceNumber(input) ==
    IF ~input.defined THEN [nan |-> TRUE, hundredths |-> 0]
    ELSE input.number

\* The date field: a Date, or undefined after the selected day is clicked again.
NoDate == [present |-> FALSE, date |-> InvalidDate]

PickedDate(date) == [present |-> TRUE, date |-> date]

\* A faulty variant of SchemaErrors: the length of the notes is not checked.
SchemaErrorsNoNotesLimit(values) ==
    LET n == CoerceNumber(values.amount)
    IN  { f \in {"amount", "category", "notes", "date", "paymentMode"} :
            \/ f = "amount" /\ (n.nan \/ n.hundredths <= 0 \/ n.hundredths < AmountMin * 100)
            \/ f = "category" /\ values.category \notin Category
            \/ f = "date" /\ ~(values.date.present /\ values.date.date.valid)
            \/ f = "paymentMode" /\ values.paymentMode \notin PaymentMode }

\* formSchema: the fields of the form values that fail validation.
SchemaErrors(values) ==
    LET n == CoerceNumber(values.amount)
    IN  { f \in {"amount", "category", "notes", "date", "paymentMode"} :
            \/ f = "amount" /\ (n.nan \/ n.hundredths <= 0 \/ n.hundredths < AmountMin * 100)
            \/ f = "category" /\ values.category \notin Category
            \/ f = "notes" /\ Len(values.notes) > NotesMax
            \/ f = "date" /\ ~(values.date.present /\ values.date.date.valid)
            \/ f = "paymentMode" /\ values.paymentMode \notin PaymentMode }

\* The data handleSubmit passes to onSubmit, which passes it on to addExpense:
\* the parsed amount, unchanged.  The store's amounts are whole numbers, on
\* which integer arithmetic is the code's floating-point arithmetic; a parsed
\* amount with a fractional part (1.5) has no such number and no value here.
ParsedForm(values) ==
    [amount |-> LET hundredths == CoerceNumber(values.amount).hundredths
                IN  CASE hundredths % 100 = 0 -> hundredths \div 100,
     category |-> values.category, notes |-> values.notes,
     date |-> values.date.date, paymentMode |-> values.paymentMode]

\* Notes of 100 and of 101 characters.
Notes100 == "xxxxxxxxxxxxxxxxxxxxxxxxxxxxxxxxxxxxxxxxxxxxxxxxxxxxxxxxxxxxxxxxxxxxxxxxxxxxxxxxxxxxxxxxxxxxxxxxxxxx"

Notes101 == "xxxxxxxxxxxxxxxxxxxxxxxxxxxxxxxxxxxxxxxxxxxxxxxxxxxxxxxxxxxxxxxxxxxxxxxxxxxxxxxxxxxxxxxxxxxxxxxxxxxxx"

\* Two complete forms.
MilkForm ==
    [amount |-> AmountText("250"), category |-> "Groceries", notes |-> "milk",
     date |-> PickedDate(MidJanuary), paymentMode |-> "UPI"]

TripForm ==
    [amount |-> AmountText("1"), category |-> "Travel", notes |-> Notes100,
     date |-> PickedDate(LeapDayLastMs), paymentMode |-> "Cash"]

\* The form values at a submission: the complete forms and MilkForm with one
\* field at fault.
RawForms ==
    { MilkForm, TripForm }
    \cup { [MilkForm EXCEPT !.amount = a] :
             a \in { NoAmount, AmountText(""), AmountText("0"), AmountText("-5"), AmountText("0.5") } }
    \cup { [MilkForm EXCEPT !.notes = Notes101],
           [MilkForm EXCEPT !.date = NoDate],
           [MilkForm EXCEPT !.category = "Food"],
           [MilkForm EXCEPT !.paymentMode = "Cheque"] }

\* The submit event of the form: handleSubmit hands the current values to the
\* resolver and awaits it; control returns to the event loop.
SubmitEvent ==
    /\ pc = "running"
    /\ nAdds + Len(form.pending) < MaxAdds
    /\ \E values \in RawForms :
          form' = [form EXCEPT !.pending = Append(@, values)]
    /\ UNCHANGED storeVars
    /\ UNCHANGED queryVars
    /\ UNCHANGED <<qView, agg, analytics>>

\* The resolver has settled: handleSubmit calls onSubmit, which calls
\* addExpense, only if no field fails; otherwise it records the errors and
\* calls nothing.
SubmitForm ==
    /\ pc = "running"
    /\ form.pending # <<>>
    /\ LET values == Head(form.pending)
       IN  /\ form' = [submitted |-> TRUE, values |-> values,
                       errors |-> SchemaErrors(values), pending |-> Tail(form.pending)]
           /\ IF SchemaErrors(values) = {}
              THEN /\ \E uuid \in UUIDs \ UsedIds :
                         /\ AddExpenseEffect(NewExpense(ParsedForm(values), uuid))
                         /\ added' = Append(added, uuid)
                   /\ nAdds' = nAdds + 1
              ELSE UNCHANGED <<expenses, queue, slot, nWrites, savePending, added, nAdds>>
    /\ UNCHANGED <<pc, logged, err, slot0, strict>>
    /\ UNCHANGED queryVars
    /\ UNCHANGED <<qView, agg, analytics>>

\* The application starts with no slot or with the slot it saved earlier.
InitForm == Init /\ slot \in {NoItem, JSONStringify(<<SavedRent>>)}

NextForm ==
    \/ LoadEffect
    \/ LoadEffectThrows
    \/ SaveEffect
    \/ SaveEffectThrows
    \/ Render
    \/ SubmitEvent
    \/ SubmitForm

SpecForm == InitForm /\ [][NextForm]_vars

\* The five checks on the submitted values: amount a positive number, notes of
\* at most 100 characters, date present, category and paymentMode in the sets.
PassesChecks(values) ==
    /\ ~CoerceNumber(values.amount).nan
    /\ CoerceNumber(values.amount).hundredths > 0
    /\ Len(values.notes) <= 100
    /\ values.date.present
    /\ values.category \in {"Rental", "Groceries", "Entertainment", "Travel", "Others"}
    /\ values.paymentMode \in {"UPI", "Credit Card", "Net Banking", "Cash"}

\* C15: on the form's submit path addExpense is called only when validation
\* has passed (amount a positive number, notes of at most 100 characters, date
\* present, category and paymentMode in the fixed sets); a submission that
\* fails one of these checks leaves the collection and the slot unchanged.
C15_OnlyValidSubmissionsAdd ==
    [][ /\ nAdds' # nAdds =>
              /\ form.pending # <<>>
              /\ form'.values = Head(form.pending)
              /\ PassesChecks(form'.values)
              /\ form'.errors = {}
              /\ queue' = Append(queue, AddUpdate(NewExpense(ParsedForm(form'.values),
                                                             added'[Len(added')])))
        /\ Len(form'.pending) > Len(form.pending) =>
              /\ expenses' = expenses
              /\ queue' = queue
              /\ slot' = slot
              /\ nAdds' = nAdds
        /\ (Len(form'.pending) < Len(form.pending) /\ ~PassesChecks(form'.values)) =>
              /\ expenses' = expenses
              /\ queue' = queue
              /\ slot' = slot
              /\ nAdds' = nAdds ]_vars

\* One form was accepted and stored, then a form with notes of 101 characters
\* was rejected.
C15_Witness ==
    /\ nAdds = 1
    /\ Len(expenses) = 1
    /\ expenses[1].notes = "milk"
    /\ form.submitted
    /\ form.values.notes = Notes101
    /\ form.errors = {"notes"}
    /\ form.pending = <<>>
    /\ queue = <<>>
    /\ slot = JSONStringify(expenses)

\* ---------------------------------------------------------------------------
\* A failing write of the durable slot

\* C16: a failing persistence write is non-fatal: after the write that
\* follows an add has failed the provider is still mounted, so the added record is still in memory and returned by
\* reads and queries, and the application accepts a further add.
C16_WriteFailureNonFatal ==
    (err = "save" /\ nAdds > 0) =>
        /\ pc = "running"
        /\ nAdds < MaxAdds => ENABLED AddExpense

\* ---------------------------------------------------------------------------
\* Startup with the mount effects repeated (React.StrictMode)

InitStrict == Mounting("armed")

SpecStrict == InitStrict /\ [][Next]_vars

\* C17: startup never loses persisted records: if the slot holds a valid
\* serialized collection C when the application starts, then, however the
\* load and save effects are ordered and repeated during mount, once
\* initialization has quiesced and before any add the in-memory collection
\* equals C and the slot again holds the serialization of C.
C17_StartupKeepsRecords ==
    \A c \in SavedCollections :
        (slot0 = JSONStringify(c) /\ Quiescent /\ nAdds = 0) =>
            /\ expenses = c
            /\ slot = JSONStringify(c)

====
